---- MODULE Spec2Model ----
(***************************************************************************)
(* Order lifecycle, decline registry, job visibility, chat fan-out and     *)
(* wallet payment of the pet transport backend (app/routers/orders.py,     *)
(* chat_ws.py, wallet.py, app/core/chat_subscriber.py and their tables).   *)
(*                                                                         *)
(* Spec      the lifecycle endpoints (create, accept, PATCH, pickup,       *)
(*           complete, cancel), each request served alone, in any order,   *)
(*           by any user.                                                  *)
(* SpecVis   the endpoints that feed a driver's job list (create, accept,  *)
(*           cancel, decline, location, settings), each served alone.      *)
(* SpecRace  accept and decline requests split at their database steps     *)
(*           (SELECT, COMMIT, refresh), interleaved freely.                *)
(* SpecPay   orders with top-ups and pay-with-wallet, each served alone.   *)
(* SpecChat  chat sockets and the pub/sub listeners of two server          *)
(*           processes; SpecChatLive adds the scheduling of the listener   *)
(*           tasks, SpecChatSlow also peers that stop reading.             *)
(* SpecCreate   orders created from any request body, then the lifecycle.  *)
(* SpecFee      prices, the commission setting and the commission          *)
(*              migration.                                                 *)
(* SpecTrack    the two driver-location WebSocket endpoints.               *)
(* SpecLoc      location and status updates split at SELECT and COMMIT.    *)
(* SpecPayRace  pay-with-wallet and verify-topup split at their reads and  *)
(*              their COMMIT, with the death of the process before it.     *)
(***************************************************************************)
EXTENDS Integers, Sequences, FiniteSets, TLC

VARIABLES
    orders,     \* table orders: a sequence of rows, the row's id is its index
    declined,   \* table declined_orders: <<driver_id, order_id>> -> number of rows
    location,   \* table driver_locations: driver_id -> lat of its row, or NoLoc
    radius,     \* drivers.work_radius_km: driver_id -> km
    last,       \* the latest answered request: what it read and its HTTP status
    reqs,       \* requests in flight (SpecRace): request -> position and session
    sockets,    \* chat WebSockets: connection -> server process, scope, state
    active_connections, \* chat_ws.active_connections of each server process
    published,  \* the messages published on the chat:* channels, in order
    listeners,  \* listen_chat of each process: messages consumed, fan-out left
    sends,      \* per process: the sends of the message in fan-out, returned or raised
    wallet_balance,      \* users.wallet_balance: user -> amount
    wallet_transactions, \* table wallet_transactions: the rows in insertion order
    track_sockets, \* location WebSockets: connection -> endpoint, driver scope, state
    manager,    \* live_tracking.manager.active_connections: the list of sockets
    frames,     \* the location frames received by the server, in order
    delivered,  \* connection -> the frames (by index) sent to it
    driver_locations, \* table driver_locations row by row (SpecLoc), in id order
    is_online,  \* drivers.is_online: driver_id -> BOOLEAN
    platform_settings \* platform_settings: the value of key commission_rate, in percent

order_vars == <<orders, declined, location, radius, last, reqs>>
chat_vars == <<sockets, active_connections, published, listeners, sends>>

wallet_vars == <<wallet_balance, wallet_transactions>>
track_vars == <<track_sockets, manager, frames, delivered>>
loc_vars == <<driver_locations, is_online>>
side_vars == <<track_vars, loc_vars, platform_settings>>

vars == <<orders, declined, location, radius, last, reqs, chat_vars, wallet_vars, side_vars>>

----------------------------------------------------------------------------
(* Bounds and input sets *)

MaxOrders == 1
MaxRequests == 2
MaxConns == 2
MaxEvents == 2
MaxTopUps == 1
MaxFrames == 2

NULL == 0
NoLoc == -1
\* None in a nullable amount column (price, platform_fee, driver_earnings,
\* commission_rate).
NoAmount == -1

Users == {1, 2, 3, 4}
DriverIds == {1, 2}
OrderIds == 1..MaxOrders
StatusValues == {"pending", "accepted", "in_progress", "completed", "cancelled"}
PaymentValues == {"pending", "paid"}
\* Positions are points of one meridian, given as their distance in km from a
\* reference point: for two points of equal longitude the haversine distance
\* R * |lat2 - lat1| (in radians) is the difference of these numbers.
Lats == {0, 8}
Pickups == {0}
RadiusValues == {2, 10}
DefaultRadius == 10
\* Amounts of money are in hundredths of the currency unit (Numeric(10,2)).
Prices == {6000}
\* Prices of the commission check: 1.50, 60.00, 80.00.
FeePrices == {150, 6000, 8000}
\* Values the commission_rate setting is given, in percent.
CommissionRates == {7, 10}
TopUps == {5000, 10000}
CommissionPct == 7

\* drivers.user_id is unique: users 2 and 3 hold the driver records 1 and 2,
\* users 1 and 4 hold none.
DriverOf(u) == CASE u = 2 -> 1 [] u = 3 -> 2 [] OTHER -> NULL

\* db.query(User).filter(User.id == driver.user_id).first()
UserOf(driver) == CHOOSE u \in Users : DriverOf(u) = driver

NoRow == [user_id |-> NULL, driver_id |-> NULL, status |-> "absent",
          payment_status |-> "absent", pickup |-> 0,
          price |-> 0, driver_earnings |-> 0, payment_method |-> "absent",
          platform_fee |-> 0, commission_rate |-> 0]

\* db.query(Order).filter(Order.id == order_id).first()
GetOrder(tbl, oid) == IF oid \in DOMAIN tbl THEN tbl[oid] ELSE NoRow

\* The UPDATE a commit flushes: the columns the handler assigned, written over
\* the row as it is in the table at that moment.
ApplyUpdate(row, upd) ==
    [f \in DOMAIN row |-> IF f \in DOMAIN upd THEN upd[f] ELSE row[f]]

\* An answered request: who asked what, the order status the handler found
\* ("absent": no such order) and the HTTP status of the answer.
Answer(op, u, oid, pre, code) ==
    [op |-> op, user |-> u, oid |-> oid, pre |-> pre, code |-> code]

----------------------------------------------------------------------------
(* Geofilter *)

calculate_distance(lat1, lat2) == IF lat1 >= lat2 THEN lat1 - lat2 ELSE lat2 - lat1

----------------------------------------------------------------------------
(* Order lifecycle endpoints.  Each <name>_txn is the handler run on the row *)
(* its session loaded: the HTTP status it answers with and the row as the    *)
(* session holds it when the handler reaches db.commit() (or returns).       *)

Txn(code, row) == [code |-> code, row |-> row]

\* The columns a flush writes: those whose value differs from the loaded one.
Dirty(loaded, held) ==
    [f \in {g \in DOMAIN loaded : held[g] # loaded[g]} |-> held[f]]

\* Mutant: the "Order is not pending" check is missing.
accept_order_txn_unchecked(row, u) ==
    LET driver == DriverOf(u) IN
    IF driver = NULL THEN Txn(403, row)
    ELSE IF row.status = "absent" THEN Txn(404, row)
    ELSE IF row.status = "accepted" /\ row.driver_id = driver THEN Txn(200, row)
    ELSE Txn(200, [row EXCEPT !.driver_id = driver, !.status = "accepted"])

accept_order_txn(row, u) ==
    LET driver == DriverOf(u) IN
    IF driver = NULL THEN Txn(403, row)
    ELSE IF row.status = "absent" THEN Txn(404, row)
    ELSE IF row.status = "accepted" /\ row.driver_id = driver THEN Txn(200, row)
    ELSE IF row.status # "pending" THEN Txn(400, row)
    ELSE Txn(200, [row EXCEPT !.driver_id = driver, !.status = "accepted"])

\* PATCH /{order_id}: upd is the OrderUpdate body, "unset" and NULL standing
\* for a field the client left out.
update_order_txn(row, u, upd) ==
    LET driver_lookup == DriverOf(u)
        accepting == \/ upd.status = "accepted"
                     \/ (upd.driver_id # NULL /\ row.status = "pending")
        target == IF upd.driver_id # NULL THEN upd.driver_id ELSE driver_lookup
        accepted == IF ~accepting \/ (row.status = "accepted" /\ row.driver_id = target)
                    THEN row
                    ELSE [row EXCEPT !.driver_id = target, !.status = "accepted"]
        with_payment == IF upd.payment_status # "unset"
                        THEN [accepted EXCEPT !.payment_status = upd.payment_status]
                        ELSE accepted
        with_price == IF upd.price # NoAmount
                      THEN [with_payment EXCEPT !.price = upd.price]
                      ELSE with_payment
        with_status == IF upd.status # "unset" /\ upd.status # "accepted"
                       THEN [with_price EXCEPT !.status = upd.status]
                       ELSE with_price
    IN
    IF row.status = "absent" THEN Txn(404, row)
    ELSE IF accepting /\ driver_lookup = NULL THEN Txn(403, row)
    ELSE IF accepting /\ ~(row.status = "accepted" /\ row.driver_id = target)
                      /\ row.status # "pending" THEN Txn(400, row)
    ELSE Txn(200, with_status)

pickup_order_txn(row, u) ==
    LET driver == DriverOf(u) IN
    IF driver = NULL THEN Txn(403, row)
    ELSE IF row.status = "absent" THEN Txn(404, row)
    ELSE IF row.driver_id # driver THEN Txn(403, row)
    ELSE IF row.status = "in_progress" THEN Txn(200, row)
    ELSE IF row.status # "accepted" THEN Txn(400, row)
    ELSE Txn(200, [row EXCEPT !.status = "in_progress"])

\* Mutant: the "Payment required before completion" check is missing.
complete_order_txn_unpaid(row, u) ==
    LET driver == DriverOf(u) IN
    IF driver = NULL THEN Txn(403, row)
    ELSE IF row.status = "absent" THEN Txn(404, row)
    ELSE IF row.driver_id # driver THEN Txn(403, row)
    ELSE IF row.status = "completed" THEN Txn(200, row)
    ELSE IF row.status # "in_progress" THEN Txn(400, row)
    ELSE Txn(200, [row EXCEPT !.status = "completed"])

complete_order_txn(row, u) ==
    LET driver == DriverOf(u) IN
    IF driver = NULL THEN Txn(403, row)
    ELSE IF row.status = "absent" THEN Txn(404, row)
    ELSE IF row.driver_id # driver THEN Txn(403, row)
    ELSE IF row.status = "completed" THEN Txn(200, row)
    ELSE IF row.status # "in_progress" THEN Txn(400, row)
    ELSE IF row.payment_status # "paid" THEN Txn(400, row)
    ELSE Txn(200, [row EXCEPT !.status = "completed"])

\* Mutant: the customer's cancel does not unassign the driver.
cancel_order_txn_keeps_driver(row, u) ==
    LET driver == DriverOf(u) IN
    IF row.status = "absent" THEN Txn(404, row)
    ELSE IF row.status = "cancelled" THEN Txn(200, row)
    ELSE IF row.user_id = u
         THEN Txn(200, [row EXCEPT !.status = "cancelled"])
    ELSE IF driver # NULL /\ row.driver_id = driver
         THEN Txn(200, [row EXCEPT !.driver_id = NULL, !.status = "pending"])
    ELSE Txn(403, row)

cancel_order_txn(row, u) ==
    LET driver == DriverOf(u) IN
    IF row.status = "absent" THEN Txn(404, row)
    ELSE IF row.status = "cancelled" THEN Txn(200, row)
    ELSE IF row.user_id = u
         THEN Txn(200, [row EXCEPT !.status = "cancelled", !.driver_id = NULL])
    ELSE IF driver # NULL /\ row.driver_id = driver
         THEN IF row.status = "pending" /\ row.driver_id = NULL
              THEN Txn(200, row)
              ELSE Txn(200, [row EXCEPT !.driver_id = NULL, !.status = "pending"])
    ELSE Txn(403, row)

\* One request served alone: load, run the handler, commit, answer.
Serve(op, u, oid, txn) ==
    /\ orders' = IF oid \in DOMAIN orders
                 THEN [orders EXCEPT ![oid] = ApplyUpdate(@, Dirty(GetOrder(orders, oid), txn.row))]
                 ELSE orders
    /\ last' = Answer(op, u, oid, GetOrder(orders, oid).status, txn.code)
    /\ UNCHANGED <<declined, location, radius, reqs, chat_vars, wallet_vars, side_vars>>

\* The PATCH bodies requests are drawn from: a status alone, a driver_id alone
\* or with status "accepted", a payment_status alone; PriceUpdates: a price
\* alone.
OrderUpdates ==
    [status : StatusValues \cup {"unset"}, driver_id : {NULL},
     payment_status : {"unset"}, price : {NoAmount}]
    \cup [status : {"unset", "accepted"}, driver_id : DriverIds,
          payment_status : {"unset"}, price : {NoAmount}]
    \cup [status : {"unset"}, driver_id : {NULL},
          payment_status : PaymentValues, price : {NoAmount}]

PriceUpdates ==
    [status : {"unset"}, driver_id : {NULL}, payment_status : {"unset"},
     price : FeePrices]

\* round(price * commission_rate, 2) and round(price * (1 - commission_rate), 2)
\* on an amount in hundredths and a rate in percent.  On the amounts of Prices
\* and FeePrices the float computation gives these values.
platform_fee_of(price, commission_rate) == (price * commission_rate + 50) \div 100

driver_earnings_of(price, commission_rate) ==
    (price * (100 - commission_rate) + 50) \div 100

create_order(u, req) ==
    \* if order_data.get('price'): None and 0 are both skipped
    LET has_price == req.price # NoAmount /\ req.price # 0 IN
    /\ Len(orders) < MaxOrders
    /\ orders' = Append(orders,
                        [user_id |-> u, driver_id |-> req.driver_id,
                         status |-> req.status,
                         payment_status |-> req.payment_status,
                         pickup |-> req.pickup,
                         price |-> req.price,
                         driver_earnings |->
                            IF has_price
                            THEN driver_earnings_of(req.price, platform_settings)
                            ELSE NoAmount,
                         payment_method |-> "cash",
                         platform_fee |->
                            IF has_price
                            THEN platform_fee_of(req.price, platform_settings)
                            ELSE NoAmount,
                         commission_rate |->
                            IF has_price THEN platform_settings ELSE NoAmount])
    /\ last' = Answer("create", u, Len(orders) + 1, "absent", 200)
    /\ UNCHANGED <<declined, location, radius, reqs, chat_vars, wallet_vars, side_vars>>

accept_order(u, oid) ==
    Serve("accept", u, oid, accept_order_txn(GetOrder(orders, oid), u))

update_order(u, oid, upd) ==
    Serve("update", u, oid, update_order_txn(GetOrder(orders, oid), u, upd))

pickup_order(u, oid) ==
    Serve("pickup", u, oid, pickup_order_txn(GetOrder(orders, oid), u))

complete_order(u, oid) ==
    Serve("complete", u, oid, complete_order_txn(GetOrder(orders, oid), u))

cancel_order(u, oid) ==
    Serve("cancel", u, oid, cancel_order_txn(GetOrder(orders, oid), u))

----------------------------------------------------------------------------
(* Decline registry *)

DeclinePairs == DriverIds \X OrderIds

\* db.query(DeclinedOrder).filter(driver_id == d, order_id == oid).first()
decline_exists(tbl, d, oid) == tbl[<<d, oid>>] > 0

insert_decline(tbl, d, oid) == [tbl EXCEPT ![<<d, oid>>] = @ + 1]

\* declined_orders.order_id is a foreign key to orders.id: an insert for an id
\* that has no order fails at commit where the database enforces foreign keys
\* (fk) and adds the row where it does not.
decline_order(u, oid, fk) ==
    LET driver == DriverOf(u)
        row == GetOrder(orders, oid)
        rejected == row.status = "absent" /\ fk
    IN
    /\ IF driver = NULL
       THEN /\ last' = Answer("decline", u, oid, row.status, 403)
            /\ UNCHANGED declined
       ELSE IF decline_exists(declined, driver, oid)
       THEN /\ last' = Answer("decline", u, oid, row.status, 200)
            /\ UNCHANGED declined
       ELSE IF rejected
       THEN /\ last' = Answer("decline", u, oid, row.status, 500)
            /\ UNCHANGED declined
       ELSE /\ last' = Answer("decline", u, oid, row.status, 200)
            /\ declined' = insert_decline(declined, driver, oid)
    /\ UNCHANGED <<orders, location, radius, reqs, chat_vars, wallet_vars, side_vars>>

----------------------------------------------------------------------------
(* Job visibility: GET /orders/ as the set of order ids it returns (the      *)
(* order of the list, created_at descending, is left out).  status is        *)
(* "unset" and driver_id is NULL for a query parameter left out.             *)

\* Mutant: the registry query is not filtered by driver.
declined_ids_of_anyone(tbl, driver) ==
    {oid \in OrderIds : \E d \in DriverIds : decline_exists(tbl, d, oid)}

declined_ids(tbl, driver) == {oid \in OrderIds : decline_exists(tbl, driver, oid)}

list_orders(u, status, driver_id) ==
    LET driver == DriverOf(u)
        all == {oid \in DOMAIN orders :
                    status # "unset" => orders[oid].status = status}
        visible == all \ declined_ids(declined, driver)
    IN
    IF driver_id # NULL
    THEN {oid \in all : orders[oid].driver_id = driver_id}
    ELSE IF driver = NULL
    THEN {oid \in all : orders[oid].user_id = u}
    ELSE IF status # "unset" /\ status # "pending"
    THEN {oid \in all : orders[oid].driver_id = driver}
    ELSE IF location[driver] # NoLoc /\ radius[driver] # 0
    THEN {oid \in visible :
            \/ orders[oid].driver_id = driver
            \/ calculate_distance(location[driver], orders[oid].pickup) <= radius[driver]}
    ELSE visible

\* The default "available jobs" view: no query parameter.
available_jobs(u) == list_orders(u, "unset", NULL)

----------------------------------------------------------------------------
(* Driver location and settings *)

create_driver_location(u, lat) ==
    LET driver == DriverOf(u) IN
    /\ IF driver = NULL
       THEN /\ last' = Answer("location", u, NULL, "absent", 403)
            /\ UNCHANGED location
       ELSE /\ last' = Answer("location", u, NULL, "absent", 200)
            /\ location' = [location EXCEPT ![driver] = lat]
    /\ UNCHANGED <<orders, declined, radius, reqs, chat_vars, wallet_vars, side_vars>>

update_driver_settings(u, km) ==
    LET driver == DriverOf(u) IN
    /\ IF driver = NULL
       THEN /\ last' = Answer("settings", u, NULL, "absent", 403)
            /\ UNCHANGED radius
       ELSE IF km < 2 \/ km > 50
       THEN /\ last' = Answer("settings", u, NULL, "absent", 400)
            /\ UNCHANGED radius
       ELSE /\ last' = Answer("settings", u, NULL, "absent", 200)
            /\ radius' = [radius EXCEPT ![driver] = km]
    /\ UNCHANGED <<orders, declined, location, reqs, chat_vars, wallet_vars, side_vars>>

----------------------------------------------------------------------------
(* Requests in flight.  Every request runs in a session of its own: what it  *)
(* loaded stays as loaded until its commit, the commit writes the columns it *)
(* changed over the row as it then is, and db.refresh reads the row again.   *)
(* No handler locks a row, checks a version or retries.                      *)

Requests == 1..MaxRequests

Idle == [op |-> "none", user |-> NULL, oid |-> NULL, pc |-> "idle",
         row |-> NoRow, exists |-> FALSE, code |-> 0, driver_id |-> NULL]

Done(req, code, driver_id) ==
    [req EXCEPT !.pc = "done", !.code = code, !.driver_id = driver_id]

\* accept_order up to its SELECT of the order.
accept_load(r, u, oid) ==
    LET row == GetOrder(orders, oid)
        req == [Idle EXCEPT !.op = "accept", !.user = u, !.oid = oid, !.row = row]
    IN
    /\ reqs[r].pc = "idle"
    /\ IF DriverOf(u) = NULL
       THEN /\ reqs' = [reqs EXCEPT ![r] = Done(req, 403, NULL)]
            /\ last' = Answer("accept", u, oid, row.status, 403)
       ELSE IF row.status = "absent"
       THEN /\ reqs' = [reqs EXCEPT ![r] = Done(req, 404, NULL)]
            /\ last' = Answer("accept", u, oid, row.status, 404)
       ELSE /\ reqs' = [reqs EXCEPT ![r] = [req EXCEPT !.pc = "loaded"]]
            /\ UNCHANGED last
    /\ UNCHANGED <<orders, declined, location, radius, chat_vars, wallet_vars, side_vars>>

\* accept_order from its checks to db.commit(): an early return or an error
\* answers from the loaded row, anything else is written.
accept_commit(r) ==
    LET req == reqs[r]
        txn == accept_order_txn(req.row, req.user)
    IN
    /\ req.pc = "loaded" /\ req.op = "accept"
    /\ IF txn.row = req.row
       THEN /\ reqs' = [reqs EXCEPT ![r] = Done(req, txn.code, req.row.driver_id)]
            /\ last' = Answer("accept", req.user, req.oid, req.row.status, txn.code)
            /\ UNCHANGED orders
       ELSE /\ orders' = [orders EXCEPT ![req.oid] = ApplyUpdate(@, Dirty(req.row, txn.row))]
            /\ reqs' = [reqs EXCEPT ![r] = [req EXCEPT !.pc = "committed", !.code = txn.code]]
            /\ UNCHANGED last
    /\ UNCHANGED <<declined, location, radius, chat_vars, wallet_vars, side_vars>>

\* db.refresh(order); return order
accept_refresh(r) ==
    LET req == reqs[r] IN
    /\ req.pc = "committed" /\ req.op = "accept"
    /\ reqs' = [reqs EXCEPT ![r] = Done(req, req.code, orders[req.oid].driver_id)]
    /\ last' = Answer("accept", req.user, req.oid, req.row.status, req.code)
    /\ UNCHANGED <<orders, declined, location, radius, chat_vars, wallet_vars, side_vars>>

\* decline_order up to its SELECT of the registry row.
decline_load(r, u, oid) ==
    LET driver == DriverOf(u)
        row == GetOrder(orders, oid)
        req == [Idle EXCEPT !.op = "decline", !.user = u, !.oid = oid, !.row = row]
    IN
    /\ reqs[r].pc = "idle"
    /\ IF driver = NULL
       THEN /\ reqs' = [reqs EXCEPT ![r] = Done(req, 403, NULL)]
            /\ last' = Answer("decline", u, oid, row.status, 403)
       ELSE /\ reqs' = [reqs EXCEPT ![r] =
                    [req EXCEPT !.pc = "loaded",
                                !.exists = decline_exists(declined, driver, oid)]]
            /\ UNCHANGED last
    /\ UNCHANGED <<orders, declined, location, radius, chat_vars, wallet_vars, side_vars>>

\* decline_order from "if not exists" to its answer.
decline_commit(r, fk) ==
    LET req == reqs[r]
        driver == DriverOf(req.user)
        rejected == GetOrder(orders, req.oid).status = "absent" /\ fk
        code == IF ~req.exists /\ rejected THEN 500 ELSE 200
    IN
    /\ req.pc = "loaded" /\ req.op = "decline"
    /\ declined' = IF req.exists \/ rejected THEN declined
                   ELSE insert_decline(declined, driver, req.oid)
    /\ reqs' = [reqs EXCEPT ![r] = Done(req, code, NULL)]
    /\ last' = Answer("decline", req.user, req.oid, req.row.status, code)
    /\ UNCHANGED <<orders, location, radius, chat_vars, wallet_vars, side_vars>>

----------------------------------------------------------------------------
(* Realtime chat: app/routers/chat_ws.py and app/core/chat_subscriber.py.    *)
(* A server process holds the dict active_connections and runs one           *)
(* listen_chat task; all processes subscribe to the same Redis server.       *)

Procs == {1, 2}
Conns == 1..MaxConns
Events == 1..MaxEvents
\* The scopes of the chat sockets: two orders, one id a decimal prefix of the
\* other, and two participants.
ChatOrders == {4, 42}
ChatUsers == {1, 2}

\* Strings are sequences of characters.
Digits == <<"0", "1", "2", "3", "4", "5", "6", "7", "8", "9">>

\* str(n) of a natural number: its decimal digits.
RECURSIVE str(_)
str(n) == IF n < 10 THEN <<Digits[n + 1]>>
          ELSE str(n \div 10) \o <<Digits[(n % 10) + 1]>>

\* s.startswith(prefix)
startswith(s, prefix) ==
    /\ Len(prefix) <= Len(s)
    /\ SubSeq(s, 1, Len(prefix)) = prefix

\* s.split(sep): the pieces of s between the occurrences of the character sep.
RECURSIVE split(_, _)
split(s, sep) ==
    IF \A i \in 1..Len(s) : s[i] # sep THEN <<s>>
    ELSE LET i == CHOOSE j \in 1..Len(s) :
                      /\ s[j] = sep
                      /\ \A k \in 1..(j - 1) : s[k] # sep
         IN <<SubSeq(s, 1, i - 1)>> \o split(SubSeq(s, i + 1, Len(s)), sep)

\* f"{order_id}:{user_id}"
connection_key(order_id, user_id) == str(order_id) \o <<":">> \o str(user_id)

\* f"chat:{order_id}"
chat_channel(order_id) == <<"c", "h", "a", "t", ":">> \o str(order_id)

\* A socket nobody has opened yet.
NoSocket == [proc |-> 0, order_id |-> 0, user_id |-> 0, state |-> "new"]

\* A chat_ws task has accepted the socket and has not left its receive loop;
\* the peer of a "lost" socket is gone, which the task has yet to notice.
Running(c) == sockets[c].state \in {"open", "stalled", "lost"}
Live(c) == sockets[c].state \in {"open", "stalled"}

\* The dict keeps its items in insertion order; d[key] = ws on a key it holds
\* replaces the value in place.
dict_has(d, key) == \E i \in 1..Len(d) : d[i].key = key

dict_set(d, key, ws) ==
    IF dict_has(d, key)
    THEN [i \in 1..Len(d) |-> IF d[i].key = key THEN [key |-> key, ws |-> ws] ELSE d[i]]
    ELSE Append(d, [key |-> key, ws |-> ws])

dict_del(d, key) == SelectSeq(d, LAMBDA item : item.key # key)

\* The sockets a process holds in its registry.
Registered(p) == {active_connections[p][i].ws : i \in 1..Len(active_connections[p])}

\* await websocket.accept(); active_connections[key] = websocket
chat_ws_connect(c, p, order_id, user_id) ==
    /\ sockets[c].state = "new"
    /\ \A b \in 1..(c - 1) : sockets[b].state # "new"
    /\ sockets' = [sockets EXCEPT ![c] = [proc |-> p, order_id |-> order_id,
                                          user_id |-> user_id, state |-> "open"]]
    /\ active_connections' =
            [active_connections EXCEPT
                ![p] = dict_set(@, connection_key(order_id, user_id), c)]
    /\ UNCHANGED <<published, listeners, sends, order_vars, wallet_vars, side_vars>>

\* One inbound frame, typing or message: publish on chat:<order_id>.
chat_ws_receive(c) ==
    /\ Live(c)
    /\ Len(published) < MaxEvents
    /\ published' = Append(published, [channel |-> chat_channel(sockets[c].order_id),
                                       order_id |-> sockets[c].order_id])
    /\ UNCHANGED <<sockets, active_connections, listeners, sends, order_vars, wallet_vars, side_vars>>

\* receive_json raises (close frame or lost peer): the except block.
chat_ws_disconnect(c) ==
    LET p == sockets[c].proc
        key == connection_key(sockets[c].order_id, sockets[c].user_id)
    IN
    /\ Running(c)
    /\ sockets' = [sockets EXCEPT ![c].state = "closed"]
    /\ active_connections' =
            [active_connections EXCEPT
                ![p] = IF dict_has(@, key) THEN dict_del(@, key) ELSE @]
    /\ UNCHANGED <<published, listeners, sends, order_vars, wallet_vars, side_vars>>

\* The peer of a socket goes away; its chat_ws task has not run since.
socket_lost(c) ==
    /\ Live(c)
    /\ sockets' = [sockets EXCEPT ![c].state = "lost"]
    /\ UNCHANGED <<active_connections, published, listeners, sends, order_vars, wallet_vars, side_vars>>

\* The peer of a socket stops reading: a send on it does not complete.
socket_stall(c) ==
    /\ sockets[c].state = "open"
    /\ sockets' = [sockets EXCEPT ![c].state = "stalled"]
    /\ UNCHANGED <<active_connections, published, listeners, sends, order_vars, wallet_vars, side_vars>>

\* Mutant: the key test is startswith(order_id) without the colon.
chat_targets_no_colon(d, order_id) ==
    LET items == SelectSeq(d, LAMBDA item : startswith(item.key, order_id))
    IN [i \in 1..Len(items) |-> items[i].ws]

\* [ws for key, ws in active_connections.items()
\*     if key.startswith(f"{order_id}:")]
chat_targets(d, order_id) ==
    LET items == SelectSeq(d, LAMBDA item : startswith(item.key, order_id \o <<":">>))
    IN [i \in 1..Len(items) |-> items[i].ws]

\* listen_chat takes the next pmessage and builds the list of targets.
listen_chat_message(p) ==
    LET lsn == listeners[p]
        msg == published[lsn.cursor + 1]
        order_id == split(msg.channel, ":")[2]
    IN
    /\ lsn.targets = <<>>
    /\ lsn.cursor < Len(published)
    /\ listeners' = [listeners EXCEPT
            ![p] = [cursor |-> lsn.cursor + 1,
                    targets |-> chat_targets(active_connections[p], order_id)]]
    /\ sends' = [sends EXCEPT ![p] = {}]
    /\ UNCHANGED <<sockets, active_connections, published, order_vars, wallet_vars, side_vars>>

\* Mutant: a send that raises ends the fan-out of the message.
send_raised_aborts(targets) == <<>>

\* except Exception inside the for loop: print, go on with the next target.
send_raised(targets) == Tail(targets)

\* One turn of "for ws in targets: await ws.send_json(data)".  The send
\* returns on an open socket, raises on a lost or closed one and does not
\* complete on a stalled one.
listen_chat_send(p) ==
    LET lsn == listeners[p]
        ws == Head(lsn.targets)
        ok == sockets[ws].state = "open"
    IN
    /\ lsn.targets # <<>>
    /\ sockets[ws].state # "stalled"
    /\ sends' = [sends EXCEPT ![p] = @ \cup {[ws |-> ws, ok |-> ok]}]
    /\ listeners' = [listeners EXCEPT
            ![p].targets = IF ok THEN Tail(lsn.targets) ELSE send_raised(lsn.targets)]
    /\ UNCHANGED <<sockets, active_connections, published, order_vars, wallet_vars, side_vars>>

----------------------------------------------------------------------------
(* Wallet: app/routers/wallet.py and pay_with_wallet of orders.py.  A row of *)
(* wallet_transactions is added at the end of the table.                     *)

IntentStatuses == {"succeeded", "canceled", "processing"}

WalletTransaction(u, amount, type, status, reference_id) ==
    [user_id |-> u, amount |-> amount, type |-> type, status |-> status,
     reference_id |-> reference_id]

TopUpRows == {i \in DOMAIN wallet_transactions : wallet_transactions[i].type = "topup"}

\* POST /wallet/topup: a pending transaction for the PaymentIntent.
create_topup_intent(u, amount) ==
    /\ Cardinality(TopUpRows) < MaxTopUps
    /\ wallet_transactions' =
            Append(wallet_transactions,
                   WalletTransaction(u, amount, "topup", "pending", NULL))
    /\ last' = Answer("topup", u, NULL, "absent", 200)
    /\ UNCHANGED <<orders, declined, location, radius, reqs, wallet_balance, chat_vars, side_vars>>

\* POST /wallet/verify-topup/{transaction_id}: intent is the status the
\* payment provider reports for the transaction's PaymentIntent.
verify_topup(u, transaction_id, intent) ==
    LET found == /\ transaction_id \in DOMAIN wallet_transactions
                 /\ wallet_transactions[transaction_id].user_id = u
                 /\ wallet_transactions[transaction_id].type = "topup"
        txn == wallet_transactions[transaction_id]
    IN
    /\ IF ~found
       THEN /\ last' = Answer("verify", u, NULL, "absent", 404)
            /\ UNCHANGED wallet_vars
       ELSE /\ last' = Answer("verify", u, NULL, "absent", 200)
            /\ IF txn.status # "success" /\ intent = "succeeded"
               THEN /\ wallet_transactions' =
                        [wallet_transactions EXCEPT ![transaction_id].status = "success"]
                    /\ wallet_balance' = [wallet_balance EXCEPT ![u] = @ + txn.amount]
               ELSE IF txn.status # "success" /\ intent = "canceled"
               THEN /\ wallet_transactions' =
                        [wallet_transactions EXCEPT ![transaction_id].status = "failed"]
                    /\ UNCHANGED wallet_balance
               ELSE UNCHANGED wallet_vars
    /\ UNCHANGED <<orders, declined, location, radius, reqs, chat_vars, side_vars>>

\* Mutant: the "Insufficient wallet balance" check is missing.
has_funds_unchecked(balance, price) == TRUE

\* not (current_user.wallet_balance < order.price)
has_funds(balance, price) == ~(balance < price)

\* POST /{order_id}/pay-wallet, served alone.
pay_with_wallet(u, oid) ==
    LET order == GetOrder(orders, oid)
        paid == [order EXCEPT !.payment_status = "paid", !.payment_method = "wallet"]
        txn == WalletTransaction(u, 0 - order.price, "payment", "success", oid)
        driver_user == UserOf(order.driver_id)
        driver_txn == WalletTransaction(driver_user, order.driver_earnings,
                                        "earning", "success", oid)
        debited == [wallet_balance EXCEPT ![u] = @ - order.price]
    IN
    /\ IF order.status = "absent"
       THEN /\ last' = Answer("pay", u, oid, order.status, 404)
            /\ UNCHANGED <<orders, wallet_vars>>
       ELSE IF order.user_id # u
       THEN /\ last' = Answer("pay", u, oid, order.status, 403)
            /\ UNCHANGED <<orders, wallet_vars>>
       ELSE IF order.payment_status = "paid"
       THEN /\ last' = Answer("pay", u, oid, order.status, 200)
            /\ UNCHANGED <<orders, wallet_vars>>
       ELSE IF ~has_funds(wallet_balance[u], order.price)
       THEN /\ last' = Answer("pay", u, oid, order.status, 400)
            /\ UNCHANGED <<orders, wallet_vars>>
       ELSE /\ last' = Answer("pay", u, oid, order.status, 200)
            /\ orders' = [orders EXCEPT ![oid] = paid]
            /\ IF order.driver_id # NULL
               THEN /\ wallet_balance' =
                        [debited EXCEPT ![driver_user] = @ + order.driver_earnings]
                    /\ wallet_transactions' =
                        wallet_transactions \o <<txn, driver_txn>>
               ELSE /\ wallet_balance' = debited
                    /\ wallet_transactions' = Append(wallet_transactions, txn)
    /\ UNCHANGED <<declined, location, radius, reqs, chat_vars, side_vars>>

----------------------------------------------------------------------------
(* pay_with_wallet and verify_topup split at their database steps: the reads
   of the handler, then its single db.commit() *)

PayIdle == [op |-> "none", user |-> NULL, oid |-> NULL, pc |-> "idle",
            row |-> NoRow, balance |-> 0, driver_balance |-> 0,
            txn_id |-> 0, txn_status |-> "none", amount |-> 0, code |-> 0]

\* Requests are numbered in the order they arrive.
Arrives(r) == reqs[r].pc = "idle" /\ \A q \in 1..(r - 1) : reqs[q].pc # "idle"

PayDone(req, code) == [req EXCEPT !.pc = "done", !.code = code]

\* The rows the session of a pay request has added when it reaches the commit.
pay_rows(req) ==
    LET txn == WalletTransaction(req.user, 0 - req.row.price, "payment",
                                 "success", req.oid)
        driver_txn == WalletTransaction(UserOf(req.row.driver_id),
                                        req.row.driver_earnings,
                                        "earning", "success", req.oid)
    IN  IF req.row.driver_id # NULL THEN <<txn, driver_txn>> ELSE <<txn>>

\* users.wallet_balance as the session holds it at the commit: the balances
\* it read, less the price and plus the earnings.
pay_balances(req, tbl) ==
    LET debited == [tbl EXCEPT ![req.user] = req.balance - req.row.price] IN
    IF req.row.driver_id # NULL
    THEN [debited EXCEPT ![UserOf(req.row.driver_id)] =
                req.driver_balance + req.row.driver_earnings]
    ELSE debited

\* pay_with_wallet up to the commit: the order and the balances are read,
\* the checks made, the changes held in the session.
pay_with_wallet_load(r, u, oid) ==
    LET order == GetOrder(orders, oid)
        req == [PayIdle EXCEPT !.op = "pay", !.user = u, !.oid = oid, !.row = order,
                    !.balance = wallet_balance[u],
                    !.driver_balance = IF order.driver_id # NULL
                                       THEN wallet_balance[UserOf(order.driver_id)]
                                       ELSE 0]
        code == IF order.status = "absent" THEN 404
                ELSE IF order.user_id # u THEN 403
                ELSE IF order.payment_status = "paid" THEN 200
                ELSE IF ~has_funds(wallet_balance[u], order.price) THEN 400
                ELSE 0
    IN
    /\ Arrives(r)
    /\ IF code # 0
       THEN /\ reqs' = [reqs EXCEPT ![r] = PayDone(req, code)]
            /\ last' = Answer("pay", u, oid, order.status, code)
       ELSE /\ reqs' = [reqs EXCEPT ![r] = [req EXCEPT !.pc = "loaded"]]
            /\ UNCHANGED last
    /\ UNCHANGED <<orders, declined, location, radius, chat_vars, wallet_vars,
                   side_vars>>

\* Mutant: each statement is committed on its own and the process dies after
\* the first, the debit.
pay_with_wallet_commit_debit_only(r) ==
    LET req == reqs[r] IN
    /\ req.pc = "loaded" /\ req.op = "pay"
    /\ wallet_balance' = [wallet_balance EXCEPT ![req.user] = req.balance - req.row.price]
    /\ reqs' = [reqs EXCEPT ![r] = PayDone(req, 0)]
    /\ UNCHANGED <<orders, wallet_transactions, declined, location, radius, last,
                   chat_vars, side_vars>>

\* db.commit() of pay_with_wallet: one transaction writes the columns the
\* handler assigned and inserts the rows it added.
pay_with_wallet_commit(r) ==
    LET req == reqs[r]
        paid == [req.row EXCEPT !.payment_status = "paid", !.payment_method = "wallet"]
    IN
    /\ req.pc = "loaded" /\ req.op = "pay"
    /\ orders' = [orders EXCEPT ![req.oid] = ApplyUpdate(@, Dirty(req.row, paid))]
    /\ wallet_balance' = pay_balances(req, wallet_balance)
    /\ wallet_transactions' = wallet_transactions \o pay_rows(req)
    /\ reqs' = [reqs EXCEPT ![r] = PayDone(req, 200)]
    /\ last' = Answer("pay", req.user, req.oid, req.row.status, 200)
    /\ UNCHANGED <<declined, location, radius, chat_vars, side_vars>>

\* The process dies before the commit: the session's changes are lost.
pay_with_wallet_crash(r) ==
    LET req == reqs[r] IN
    /\ req.pc = "loaded" /\ req.op = "pay"
    /\ reqs' = [reqs EXCEPT ![r] = PayDone(req, 0)]
    /\ UNCHANGED <<orders, declined, location, radius, last, chat_vars, wallet_vars,
                   side_vars>>

\* verify_topup up to the call of the payment provider: the transaction and
\* the user's balance are read.
verify_topup_load(r, u, transaction_id) ==
    LET found == /\ transaction_id \in DOMAIN wallet_transactions
                 /\ wallet_transactions[transaction_id].user_id = u
                 /\ wallet_transactions[transaction_id].type = "topup"
        txn == wallet_transactions[transaction_id]
        req == [PayIdle EXCEPT !.op = "verify", !.user = u, !.txn_id = transaction_id,
                    !.balance = wallet_balance[u]]
    IN
    /\ Arrives(r)
    /\ IF ~found
       THEN /\ reqs' = [reqs EXCEPT ![r] = PayDone(req, 404)]
            /\ last' = Answer("verify", u, NULL, "absent", 404)
       ELSE IF txn.status = "success"
       THEN /\ reqs' = [reqs EXCEPT ![r] = PayDone(req, 200)]
            /\ last' = Answer("verify", u, NULL, "absent", 200)
       ELSE /\ reqs' = [reqs EXCEPT ![r] =
                    [req EXCEPT !.pc = "loaded", !.txn_status = txn.status,
                                !.amount = txn.amount]]
            /\ UNCHANGED last
    /\ UNCHANGED <<orders, declined, location, radius, chat_vars, wallet_vars,
                   side_vars>>

\* verify_topup from the provider's answer to its return: on "succeeded" the
\* status and the balance the session read, plus the amount, are committed.
verify_topup_commit(r, intent) ==
    LET req == reqs[r] IN
    /\ req.pc = "loaded" /\ req.op = "verify"
    /\ IF intent = "succeeded"
       THEN /\ wallet_transactions' =
                    [wallet_transactions EXCEPT ![req.txn_id].status = "success"]
            /\ wallet_balance' =
                    [wallet_balance EXCEPT ![req.user] = req.balance + req.amount]
       ELSE IF intent = "canceled"
       THEN /\ wallet_transactions' =
                    [wallet_transactions EXCEPT ![req.txn_id].status = "failed"]
            /\ UNCHANGED wallet_balance
       ELSE UNCHANGED wallet_vars
    /\ reqs' = [reqs EXCEPT ![r] = PayDone(req, 200)]
    /\ last' = Answer("verify", req.user, NULL, "absent", 200)
    /\ UNCHANGED <<orders, declined, location, radius, chat_vars, side_vars>>

----------------------------------------------------------------------------
(* Location channel: live_tracking.py (/ws/driver/{driver_id}) and
   driver_ws.py (/driver_ws/ws/driver/{driver_id}) *)

TrackEndpoints == {"live_tracking", "driver_ws"}
NoTrack == [endpoint |-> "none", driver_id |-> NULL, state |-> "closed"]

\* The sockets in a list.
Members(list) == {list[i] : i \in 1..Len(list)}

\* list.remove(x): the list without the first x.
Remove(list, x) ==
    LET i == CHOOSE j \in 1..Len(list) :
                 list[j] = x /\ \A k \in 1..(j - 1) : list[k] # x
    IN  SubSeq(list, 1, i - 1) \o SubSeq(list, i + 1, Len(list))

\* ConnectionManager.connect: accept and append to the one list.
connect(c) == manager' = Append(manager, c)

\* ConnectionManager.disconnect.
disconnect(c) == manager' = Remove(manager, c)

\* ConnectionManager.broadcast: send to every socket of the list, whatever
\* driver_id its own path carried.
broadcast(n) ==
    delivered' = [k \in Conns |->
        IF k \in Members(manager) THEN delivered[k] \cup {n} ELSE delivered[k]]

\* websocket_endpoint up to its first receive_json.
websocket_endpoint_connect(c, driver_id) ==
    /\ track_sockets[c].state = "closed"
    /\ track_sockets' = [track_sockets EXCEPT ![c] =
            [endpoint |-> "live_tracking", driver_id |-> driver_id, state |-> "open"]]
    /\ connect(c)
    /\ delivered' = [delivered EXCEPT ![c] = {}]
    /\ UNCHANGED <<frames, order_vars, chat_vars, wallet_vars, loc_vars, platform_settings>>

\* One turn of websocket_endpoint's loop: a frame arrives and is broadcast
\* with the driver_id of the socket's path.
websocket_endpoint_receive(c, lat) ==
    /\ track_sockets[c].state = "open"
    /\ track_sockets[c].endpoint = "live_tracking"
    /\ Len(frames) < MaxFrames
    /\ frames' = Append(frames, [conn |-> c,
                                 driver_id |-> track_sockets[c].driver_id,
                                 lat |-> lat])
    /\ broadcast(Len(frames) + 1)
    /\ UNCHANGED <<track_sockets, manager, order_vars, chat_vars, wallet_vars, loc_vars, platform_settings>>

\* The peer closes: receive_json raises WebSocketDisconnect.
websocket_endpoint_disconnect(c) ==
    /\ track_sockets[c].state = "open"
    /\ track_sockets[c].endpoint = "live_tracking"
    /\ track_sockets' = [track_sockets EXCEPT ![c] = NoTrack]
    /\ disconnect(c)
    /\ UNCHANGED <<frames, delivered, order_vars, chat_vars, wallet_vars, loc_vars, platform_settings>>

\* driver_ws up to its first receive_json: accepted, kept in no list.
driver_ws_connect(c, driver_id) ==
    /\ track_sockets[c].state = "closed"
    /\ track_sockets' = [track_sockets EXCEPT ![c] =
            [endpoint |-> "driver_ws", driver_id |-> driver_id, state |-> "open"]]
    /\ delivered' = [delivered EXCEPT ![c] = {}]
    /\ UNCHANGED <<manager, frames, order_vars, chat_vars, wallet_vars, loc_vars, platform_settings>>

\* One turn of driver_ws's loop: the frame is echoed to its sender.
driver_ws(c, lat) ==
    /\ track_sockets[c].state = "open"
    /\ track_sockets[c].endpoint = "driver_ws"
    /\ Len(frames) < MaxFrames
    /\ frames' = Append(frames, [conn |-> c,
                                 driver_id |-> track_sockets[c].driver_id,
                                 lat |-> lat])
    /\ delivered' = [delivered EXCEPT ![c] = @ \cup {Len(frames) + 1}]
    /\ UNCHANGED <<track_sockets, manager, order_vars, chat_vars, wallet_vars, loc_vars, platform_settings>>

\* The peer closes: receive_json raises and the loop breaks.
driver_ws_disconnect(c) ==
    /\ track_sockets[c].state = "open"
    /\ track_sockets[c].endpoint = "driver_ws"
    /\ track_sockets' = [track_sockets EXCEPT ![c] = NoTrack]
    /\ UNCHANGED <<manager, frames, delivered, order_vars, chat_vars, wallet_vars, loc_vars, platform_settings>>

----------------------------------------------------------------------------
(* Commission: PUT /settings/{key} (settings.py) and migrate_commission.py *)

\* update_setting on key commission_rate: the row exists, its value is
\* replaced by the one of the body.
update_setting(value) ==
    /\ platform_settings' = value
    /\ UNCHANGED <<order_vars, chat_vars, wallet_vars, track_vars, loc_vars>>

\* update_existing_orders_commission: every order with a price and no
\* platform_fee gets both amounts at 7 %; commission_rate is left alone.
update_existing_orders_commission ==
    /\ orders' = [oid \in DOMAIN orders |->
            IF orders[oid].price # NoAmount /\ orders[oid].platform_fee = NoAmount
            THEN [orders[oid] EXCEPT
                    !.platform_fee = platform_fee_of(orders[oid].price, CommissionPct),
                    !.driver_earnings = driver_earnings_of(orders[oid].price, CommissionPct)]
            ELSE orders[oid]]
    /\ UNCHANGED <<declined, location, radius, last, reqs, chat_vars, wallet_vars,
                   side_vars>>

----------------------------------------------------------------------------
(* Driver location rows: create_driver_location (POST /driver_locations,
   PUT /me, PUT /{driver_id}) and update_driver_status, split at the SELECT
   of the row and the COMMIT *)

LocationIdle == [op |-> "none", user |-> NULL, pc |-> "idle", driver |-> NULL,
                 lat |-> NoLoc, found |-> 0, is_online |-> FALSE, upsert |-> FALSE]

\* db.query(DriverLocation).filter(DriverLocation.driver_id == driver.id).first():
\* the id of the row, 0 for none.
first_location(tbl, driver) ==
    LET ids == {i \in DOMAIN tbl : tbl[i].driver_id = driver} IN
    IF ids = {} THEN 0 ELSE CHOOSE i \in ids : \A j \in ids : i <= j

\* The UPDATE or INSERT of the upsert, from what the SELECT found.
upsert_location(tbl, req) ==
    IF req.found # 0
    THEN [tbl EXCEPT ![req.found].lat = req.lat]
    ELSE Append(tbl, [driver_id |-> req.driver, lat |-> req.lat])

\* The position the job list reads: that of the driver's first row.
first_lat(tbl, driver) ==
    IF first_location(tbl, driver) = 0 THEN NoLoc
    ELSE tbl[first_location(tbl, driver)].lat

\* create_driver_location up to its SELECT of the driver's row.
create_driver_location_load(r, u, lat) ==
    LET driver == DriverOf(u)
        req == [LocationIdle EXCEPT !.op = "location", !.user = u,
                                    !.driver = driver, !.lat = lat, !.upsert = TRUE]
    IN
    /\ reqs[r].pc = "idle"
    /\ IF driver = NULL
       THEN /\ reqs' = [reqs EXCEPT ![r] = [req EXCEPT !.pc = "done"]]
            /\ last' = Answer("location", u, NULL, "absent", 403)
       ELSE /\ reqs' = [reqs EXCEPT ![r] =
                    [req EXCEPT !.pc = "loaded",
                                !.found = first_location(driver_locations, driver)]]
            /\ UNCHANGED last
    /\ UNCHANGED <<orders, declined, location, radius, chat_vars, wallet_vars,
                   side_vars>>

\* update_driver_status up to its SELECT of the driver's row, made only when
\* the driver goes from offline to online with coordinates (lat = NoLoc: none).
update_driver_status_load(r, u, online, lat) ==
    LET driver == DriverOf(u)
        upsert == driver # NULL /\ ~is_online[driver] /\ online /\ lat # NoLoc
        req == [LocationIdle EXCEPT !.op = "status", !.user = u,
                                    !.driver = driver, !.lat = lat,
                                    !.is_online = online, !.upsert = upsert]
    IN
    /\ reqs[r].pc = "idle"
    /\ IF driver = NULL
       THEN /\ reqs' = [reqs EXCEPT ![r] = [req EXCEPT !.pc = "done"]]
            /\ last' = Answer("status", u, NULL, "absent", 403)
       ELSE /\ reqs' = [reqs EXCEPT ![r] =
                    [req EXCEPT !.pc = "loaded",
                                !.found = IF upsert
                                          THEN first_location(driver_locations, driver)
                                          ELSE 0]]
            /\ UNCHANGED last
    /\ UNCHANGED <<orders, declined, location, radius, chat_vars, wallet_vars,
                   side_vars>>

\* db.commit() of either handler.
location_commit(r) ==
    LET req == reqs[r]
        tbl == IF req.upsert THEN upsert_location(driver_locations, req)
               ELSE driver_locations
    IN
    /\ req.pc = "loaded"
    /\ driver_locations' = tbl
    /\ location' = [d \in DriverIds |-> first_lat(tbl, d)]
    /\ is_online' = IF req.op = "status"
                    THEN [is_online EXCEPT ![req.driver] = req.is_online]
                    ELSE is_online
    /\ reqs' = [reqs EXCEPT ![r].pc = "done"]
    /\ last' = Answer(req.op, req.user, NULL, "absent", 200)
    /\ UNCHANGED <<orders, declined, radius, chat_vars, wallet_vars, track_vars,
                   platform_settings>>

----------------------------------------------------------------------------
(* Specifications *)

\* The bodies a create request is drawn from.  Customers are the users that
\* place orders; user 4 never does and is a stranger to every order.
OrderCreates ==
    [status : StatusValues, driver_id : DriverIds \cup {NULL},
     payment_status : PaymentValues, pickup : Pickups, price : Prices]

DefaultCreates == {req \in OrderCreates : /\ req.status = "pending"
                                          /\ req.driver_id = NULL
                                          /\ req.payment_status = "pending"}

Customers == {1}

\* users.wallet_balance defaults to 0; no wallet transaction yet.
InitWallet ==
    /\ wallet_balance = [u \in Users |-> 0]
    /\ wallet_transactions = <<>>

\* Every process has started: empty registry, listener subscribed.
InitChat ==
    /\ sockets = [c \in Conns |-> NoSocket]
    /\ active_connections = [p \in Procs |-> <<>>]
    /\ published = <<>>
    /\ listeners = [p \in Procs |-> [cursor |-> 0, targets |-> <<>>]]
    /\ sends = [p \in Procs |-> {}]

\* No location socket is open.
InitTrack ==
    /\ track_sockets = [c \in Conns |-> NoTrack]
    /\ manager = <<>>
    /\ frames = <<>>
    /\ delivered = [c \in Conns |-> {}]

\* No location row, every driver offline (models.py: default False).
InitLoc ==
    /\ driver_locations = <<>>
    /\ is_online = [d \in DriverIds |-> FALSE]

\* The commission_rate setting holds the rate the code defaults to.
InitSettings == platform_settings = CommissionPct

Init ==
    /\ orders = <<>>
    /\ declined = [p \in DeclinePairs |-> 0]
    /\ location = [d \in DriverIds |-> NoLoc]
    /\ radius = [d \in DriverIds |-> DefaultRadius]
    /\ last = Answer("none", NULL, NULL, "absent", 200)
    /\ reqs = <<>>
    /\ InitChat
    /\ InitWallet
    /\ InitTrack
    /\ InitLoc
    /\ InitSettings

Next ==
    \/ \E u \in Customers, req \in DefaultCreates : create_order(u, req)
    \/ \E u \in Users, oid \in OrderIds : accept_order(u, oid)
    \/ \E u \in Users, oid \in OrderIds, upd \in OrderUpdates : update_order(u, oid, upd)
    \/ \E u \in Users, oid \in OrderIds : pickup_order(u, oid)
    \/ \E u \in Users, oid \in OrderIds : complete_order(u, oid)
    \/ \E u \in Users, oid \in OrderIds : cancel_order(u, oid)

\* The users a job list depends on: the customers and the drivers.  Foreign
\* keys are taken as enforced here; SpecRace leaves that open.
Parties == Customers \cup {u \in Users : DriverOf(u) # NULL}

NextVis ==
    \/ \E u \in Customers, req \in DefaultCreates : create_order(u, req)
    \/ \E u \in Parties, oid \in OrderIds : accept_order(u, oid)
    \/ \E u \in Parties, oid \in OrderIds : cancel_order(u, oid)
    \/ \E u \in Parties, oid \in OrderIds : decline_order(u, oid, TRUE)
    \/ \E u \in Parties, lat \in Lats : create_driver_location(u, lat)
    \/ \E u \in Parties, km \in RadiusValues : update_driver_settings(u, km)

SpecVis == Init /\ [][NextVis]_vars

NextRace ==
    \/ \E u \in Customers, req \in DefaultCreates : create_order(u, req)
    \/ \E r \in Requests, u \in Users, oid \in OrderIds : accept_load(r, u, oid)
    \/ \E r \in Requests : accept_commit(r)
    \/ \E r \in Requests : accept_refresh(r)
    \/ \E r \in Requests, u \in Users, oid \in OrderIds : decline_load(r, u, oid)
    \/ \E r \in Requests, fk \in BOOLEAN : decline_commit(r, fk)

\* As Init, with MaxRequests requests yet to arrive.
InitRace ==
    /\ orders = <<>>
    /\ declined = [p \in DeclinePairs |-> 0]
    /\ location = [d \in DriverIds |-> NoLoc]
    /\ radius = [d \in DriverIds |-> DefaultRadius]
    /\ last = Answer("none", NULL, NULL, "absent", 200)
    /\ reqs = [r \in Requests |-> Idle]
    /\ InitChat
    /\ InitWallet
    /\ InitTrack
    /\ InitLoc
    /\ InitSettings

SpecRace == InitRace /\ [][NextRace]_vars

Spec == Init /\ [][Next]_vars

\* Orders and the wallet: create and accept, the customers' top-ups and
\* pay-with-wallet by any user, each request served alone.
NextPay ==
    \/ \E u \in Customers, req \in DefaultCreates : create_order(u, req)
    \/ \E u \in Parties, oid \in OrderIds : accept_order(u, oid)
    \/ \E u \in Customers, amount \in TopUps : create_topup_intent(u, amount)
    \/ \E u \in Parties, i \in 1..(MaxTopUps + 1), intent \in IntentStatuses :
            verify_topup(u, i, intent)
    \/ \E u \in Users, oid \in OrderIds : pay_with_wallet(u, oid)

SpecPay == Init /\ [][NextPay]_vars

\* Orders created from any request body, then taken through the lifecycle by
\* the customer and the drivers.
NextCreate ==
    \/ \E u \in Customers, req \in OrderCreates : create_order(u, req)
    \/ \E u \in Parties, oid \in OrderIds : accept_order(u, oid)
    \/ \E u \in Parties, oid \in OrderIds : pickup_order(u, oid)
    \/ \E u \in Parties, oid \in OrderIds : complete_order(u, oid)
    \/ \E u \in Parties, oid \in OrderIds : cancel_order(u, oid)

SpecCreate == Init /\ [][NextCreate]_vars

\* The wallet after two top-ups of user 1, the first verified, the second
\* still pending; MaxRequests payment requests yet to arrive.
InitPayRace ==
    /\ orders = <<>>
    /\ declined = [p \in DeclinePairs |-> 0]
    /\ location = [d \in DriverIds |-> NoLoc]
    /\ radius = [d \in DriverIds |-> DefaultRadius]
    /\ last = Answer("none", NULL, NULL, "absent", 200)
    /\ reqs = [r \in Requests |-> PayIdle]
    /\ InitChat
    /\ wallet_balance = [u \in Users |-> IF u = 1 THEN 10000 ELSE 0]
    /\ wallet_transactions =
            <<WalletTransaction(1, 10000, "topup", "success", NULL),
              WalletTransaction(1, 5000, "topup", "pending", NULL)>>
    /\ InitTrack
    /\ InitLoc
    /\ InitSettings

\* Orders created by the customer and accepted by the drivers, each request
\* served alone; the customer's pay-with-wallet
\* and verify-topup requests interleaved at their database steps, a payment
\* possibly cut short by the death of the process.
NextPayRace ==
    \/ \E u \in Customers, req \in DefaultCreates : create_order(u, req)
    \/ \E u \in Parties \ Customers, oid \in OrderIds : accept_order(u, oid)
    \/ \E r \in Requests, u \in Customers, oid \in OrderIds : pay_with_wallet_load(r, u, oid)
    \/ \E r \in Requests : pay_with_wallet_commit(r)
    \/ \E r \in Requests : pay_with_wallet_crash(r)
    \/ \E r \in Requests, u \in Customers, i \in 1..2 : verify_topup_load(r, u, i)
    \/ \E r \in Requests, intent \in IntentStatuses : verify_topup_commit(r, intent)

SpecPayRace == InitPayRace /\ [][NextPayRace]_vars

\* Location updates and status updates of the drivers (and of the customer,
\* who is refused), interleaved at their database steps.
NextLoc ==
    \/ \E r \in Requests, u \in Parties, lat \in Lats :
            create_driver_location_load(r, u, lat)
    \/ \E r \in Requests, u \in Parties, online \in BOOLEAN, lat \in Lats \cup {NoLoc} :
            update_driver_status_load(r, u, online, lat)
    \/ \E r \in Requests : location_commit(r)

\* As Init, with MaxRequests location requests yet to arrive.
InitLocRace ==
    /\ orders = <<>>
    /\ declined = [p \in DeclinePairs |-> 0]
    /\ location = [d \in DriverIds |-> NoLoc]
    /\ radius = [d \in DriverIds |-> DefaultRadius]
    /\ last = Answer("none", NULL, NULL, "absent", 200)
    /\ reqs = [r \in Requests |-> LocationIdle]
    /\ InitChat
    /\ InitWallet
    /\ InitTrack
    /\ InitLoc
    /\ InitSettings

SpecLoc == InitLocRace /\ [][NextLoc]_vars

\* Orders with or without a price, price changes by PATCH from any user,
\* changes of the commission setting and the commission migration.
FeeCreates ==
    [status : {"pending"}, driver_id : {NULL}, payment_status : {"pending"},
     pickup : Pickups, price : FeePrices \cup {NoAmount}]

NextFee ==
    \/ \E u \in Customers, req \in FeeCreates : create_order(u, req)
    \/ \E u \in Users, oid \in OrderIds, upd \in PriceUpdates :
            update_order(u, oid, upd)
    \/ \E value \in CommissionRates : update_setting(value)
    \/ update_existing_orders_commission

SpecFee == Init /\ [][NextFee]_vars

\* The two location endpoints, their sockets opened under any driver_id.
NextTrack ==
    \/ \E c \in Conns, driver_id \in DriverIds : websocket_endpoint_connect(c, driver_id)
    \/ \E c \in Conns, lat \in Lats : websocket_endpoint_receive(c, lat)
    \/ \E c \in Conns : websocket_endpoint_disconnect(c)
    \/ \E c \in Conns, driver_id \in DriverIds : driver_ws_connect(c, driver_id)
    \/ \E c \in Conns, lat \in Lats : driver_ws(c, lat)
    \/ \E c \in Conns : driver_ws_disconnect(c)

SpecTrack == Init /\ [][NextTrack]_vars

NextChat ==
    \/ \E c \in Conns, p \in Procs, order_id \in ChatOrders, user_id \in ChatUsers :
            chat_ws_connect(c, p, order_id, user_id)
    \/ \E c \in Conns : chat_ws_receive(c)
    \/ \E c \in Conns : chat_ws_disconnect(c)
    \/ \E c \in Conns : socket_lost(c)
    \/ \E p \in Procs : listen_chat_message(p)
    \/ \E p \in Procs : listen_chat_send(p)

SpecChat == Init /\ [][NextChat]_vars

\* listen_chat is a task of the event loop: it runs whenever it can.
listen_chat(p) == listen_chat_message(p) \/ listen_chat_send(p)

ListenerFairness == \A p \in Procs : WF_vars(listen_chat(p))

SpecChatLive == Init /\ [][NextChat]_vars /\ ListenerFairness

NextChatSlow ==
    \/ NextChat
    \/ \E c \in Conns : socket_stall(c)

SpecChatSlow == Init /\ [][NextChatSlow]_vars /\ ListenerFairness

----------------------------------------------------------------------------
(* Claims *)

Exists(oid) == oid \in DOMAIN orders

\* The order the step's request names, as the handler found it.
Before == GetOrder(orders, last'.oid)
After == GetOrder(orders', last'.oid)

IsDriver(u) == DriverOf(u) # NULL

\* C1 (SpecRace): when two different drivers call accept on the same pending
\* order concurrently (both loaded it as pending), exactly one call succeeds
\* and the other gets the not-pending error; the order ends accepted by the
\* driver whose call succeeded, and no successful answer names another driver
\* than the order's final driver_id.
C1_ExactlyOneAcceptSucceeds ==
    \A r1, r2 \in Requests :
        LET a == reqs[r1]
            b == reqs[r2]
        IN
        (/\ r1 # r2
         /\ a.op = "accept" /\ b.op = "accept"
         /\ a.pc = "done" /\ b.pc = "done"
         /\ a.oid = b.oid
         /\ IsDriver(a.user) /\ IsDriver(b.user) /\ a.user # b.user
         /\ a.row.status = "pending" /\ b.row.status = "pending")
        => /\ {a.code, b.code} = {200, 400}
           /\ orders[a.oid].status = "accepted"
           /\ \A c \in {a, b} :
                c.code = 200 => /\ c.driver_id = orders[a.oid].driver_id
                                /\ c.driver_id = DriverOf(c.user)

\* C2: accept on an order whose status is not pending never changes the
\* order; a driver's call is answered 200 exactly when the order is accepted
\* and assigned to that driver, and with the invalid-state error (400) in
\* every other non-pending case.
C2_AcceptNonPending ==
    [][(last'.op = "accept" /\ Before.status \notin {"pending", "absent"})
        => /\ orders' = orders
           /\ IsDriver(last'.user) =>
                /\ last'.code = 200 <=> (/\ Before.status = "accepted"
                                         /\ Before.driver_id = DriverOf(last'.user))
                /\ last'.code # 200 => last'.code = 400]_vars

\* C2 witness: a driver's accept of an order accepted by another driver was
\* answered 400.
C2_Witness ==
    /\ last.op = "accept" /\ last.code = 400 /\ last.pre = "accepted"
    /\ IsDriver(last.user)
    /\ orders[last.oid].status = "accepted"
    /\ orders[last.oid].driver_id \notin {NULL, DriverOf(last.user)}

\* C3: complete by the assigned driver on an in_progress order fails (400)
\* and leaves the order in_progress when payment_status is not paid, and
\* sets completed when it is paid; complete never sets completed otherwise.
C3_CompleteNeedsPayment ==
    [][last'.op = "complete"
        => /\ (/\ Before.status = "in_progress"
               /\ IsDriver(last'.user)
               /\ Before.driver_id = DriverOf(last'.user))
              => IF Before.payment_status = "paid"
                 THEN /\ last'.code = 200
                      /\ After = [Before EXCEPT !.status = "completed"]
                 ELSE /\ last'.code = 400
                      /\ orders' = orders
           /\ (After.status = "completed" /\ Before.status # "completed")
              => /\ Before.status = "in_progress"
                 /\ Before.payment_status = "paid"]_vars

\* C3 witness: the assigned driver's complete of an unpaid in_progress order
\* was answered 400.
C3_Witness ==
    /\ last.op = "complete" /\ last.code = 400 /\ last.pre = "in_progress"
    /\ orders[last.oid].status = "in_progress"
    /\ orders[last.oid].payment_status # "paid"
    /\ orders[last.oid].driver_id = DriverOf(last.user)

\* C4: cancel by the order's customer on a pending, accepted or in_progress
\* order sets status cancelled and clears driver_id; the customer's cancel of
\* a cancelled order is answered 200 with the order unchanged.
C4_CustomerCancel ==
    [][(last'.op = "cancel" /\ Exists(last'.oid) /\ Before.user_id = last'.user)
        => /\ Before.status \in {"pending", "accepted", "in_progress"}
              => /\ last'.code = 200
                 /\ After = [Before EXCEPT !.status = "cancelled", !.driver_id = NULL]
           /\ Before.status = "cancelled"
              => /\ last'.code = 200
                 /\ orders' = orders]_vars

\* C4 witness: the customer's cancel found the order already cancelled and
\* was answered 200.
C4_Witness ==
    /\ last.op = "cancel" /\ last.code = 200 /\ last.pre = "cancelled"
    /\ Exists(last.oid)
    /\ orders[last.oid].user_id = last.user
    /\ orders[last.oid].status = "cancelled"

\* C5: completed and cancelled are terminal: once an order is completed or
\* cancelled no operation changes its status or driver_id.
C5_TerminalIsFinal ==
    [][\A oid \in DOMAIN orders :
        orders[oid].status \in {"completed", "cancelled"}
        => /\ orders'[oid].status = orders[oid].status
           /\ orders'[oid].driver_id = orders[oid].driver_id]_vars

StatusEdges ==
    {<<"pending", "accepted">>, <<"accepted", "in_progress">>,
     <<"in_progress", "completed">>, <<"pending", "cancelled">>,
     <<"accepted", "cancelled">>, <<"accepted", "pending">>}

\* C6: every change of an order's status follows one of the edges
\* pending->accepted, accepted->in_progress, in_progress->completed,
\* pending->cancelled, accepted->cancelled, accepted->pending.
C6_StatusEdges ==
    [][\A oid \in DOMAIN orders :
        orders'[oid].status # orders[oid].status
        => <<orders[oid].status, orders'[oid].status>> \in StatusEdges]_vars

\* C7: right after the assigned driver released an order (now pending, no
\* driver), the same driver's next call of the cancel endpoint is answered
\* 200 and changes nothing.
C7_ReleaseReplay ==
    [][(/\ last.op = "cancel" /\ last.code = 200 /\ last.pre = "accepted"
        /\ IsDriver(last.user)
        /\ Exists(last.oid)
        /\ orders[last.oid].user_id # last.user
        /\ orders[last.oid].status = "pending"
        /\ orders[last.oid].driver_id = NULL
        /\ last'.op = "cancel" /\ last'.user = last.user /\ last'.oid = last.oid)
        => /\ last'.code = 200
           /\ orders' = orders]_vars

\* C8: pickup, complete or cancel of an existing order by a user who is
\* neither its customer nor its assigned driver is answered 403 and leaves
\* the order unchanged, whatever its status; for an unknown order id the same
\* request is answered 404.
C8_StrangerForbidden ==
    [][last'.op \in {"pickup", "complete", "cancel"}
        => IF Exists(last'.oid)
           THEN (/\ Before.user_id # last'.user
                 /\ (~IsDriver(last'.user) \/ Before.driver_id # DriverOf(last'.user)))
                => /\ last'.code = 403
                   /\ orders' = orders
           ELSE last'.code = 404]_vars

\* C9 (SpecRace): however a driver's decline calls for an order interleave,
\* each is answered 200 and the registry holds the (driver, order) pair once.
C9_DeclineOnce ==
    \A r \in Requests :
        (/\ reqs[r].op = "decline" /\ reqs[r].pc = "done"
         /\ IsDriver(reqs[r].user)
         /\ reqs[r].row.status # "absent")
        => /\ reqs[r].code = 200
           /\ declined[<<DriverOf(reqs[r].user), reqs[r].oid>>] = 1

\* C10 (SpecVis): after driver D declined order O, O is not in D's default
\* job list, every other user's default list is what it was before, and no
\* order field changed.
C10_DeclineHidesForOneDriver ==
    [][(last'.op = "decline" /\ last'.code = 200)
        => /\ \A u \in Users :
                IF u = last'.user
                THEN last'.oid \notin available_jobs(u)'
                ELSE available_jobs(u)' = available_jobs(u)
           /\ orders' = orders]_vars

\* C10 witness: a driver declined a pending order that another driver still
\* sees in the default list.
C10_Witness ==
    /\ last.op = "decline" /\ last.code = 200
    /\ Exists(last.oid)
    /\ orders[last.oid].status = "pending"
    /\ last.oid \notin available_jobs(last.user)
    /\ \E u \in Users \ {last.user} : IsDriver(u) /\ last.oid \in available_jobs(u)

ListStatuses == StatusValues \cup {"unset"}
ListDrivers == DriverIds \cup {NULL}

\* C11 (SpecVis): every order in a driver's default job list is pending or
\* assigned to that driver, with a recorded location and radius (then a
\* pending order only within the radius) and without one; no order accepted
\* by another driver, completed or cancelled is in the list.
C11_DefaultListPendingOrOwn ==
    \A u \in Users :
        IsDriver(u) =>
            \A oid \in available_jobs(u) :
                \/ orders[oid].status = "pending"
                \/ orders[oid].driver_id = DriverOf(u)

\* C12 (SpecVis): every order assigned to driver D with status accepted or
\* in_progress is in D's default job list, wherever D is and whether or not
\* D declined the order before accepting it.
C12_OwnJobsStayVisible ==
    \A u \in Users :
        IsDriver(u) =>
            \A oid \in DOMAIN orders :
                (/\ orders[oid].driver_id = DriverOf(u)
                 /\ orders[oid].status \in {"accepted", "in_progress"})
                => oid \in available_jobs(u)

\* C13 (SpecVis): a user without a driver record gets from the order list only
\* orders whose customer is that user, for every combination of the status
\* and driver_id query parameters.
C13_CustomerSeesOwnOnly ==
    \A u \in Users :
        ~IsDriver(u) =>
            \A status \in ListStatuses, driver_id \in ListDrivers :
                \A oid \in list_orders(u, status, driver_id) :
                    orders[oid].user_id = u

\* Chat: what the fan-out of the message a process is at has done so far.
Attempted(p, c) == \E ok \in BOOLEAN : [ws |-> c, ok |-> ok] \in sends[p]
Received(p, c) == [ws |-> c, ok |-> TRUE] \in sends[p]
Failed(p, c) == [ws |-> c, ok |-> FALSE] \in sends[p]
Range(seq) == {seq[i] : i \in 1..Len(seq)}

\* C14 (SpecChat): a message published on chat:<N> goes, in every process,
\* to every socket registered under order N when the listener takes the
\* message and to no socket of another order (4 and 42 included): the
\* listener's targets are exactly the process's registered sockets of order
\* N, each target it passes has had its send, delivered if the socket is
\* open, and no send reaches a socket of another order.
C14_ChatFanOutScope ==
    [][\A p \in Procs :
        LET lsn == listeners[p] IN
        /\ \A e \in Events :
            (lsn.cursor # e /\ listeners'[p].cursor = e)
            => Range(listeners'[p].targets)
                = {c \in Registered(p) : sockets[c].order_id = published[e].order_id}
        /\ \A c \in Conns :
            (/\ listeners'[p].cursor = lsn.cursor
             /\ listeners'[p].targets # lsn.targets
             /\ Head(lsn.targets) = c)
            => /\ listeners'[p].targets = Tail(lsn.targets)
               /\ Attempted(p, c)'
               /\ sockets[c].state = "open" => Received(p, c)'
        /\ \A snd \in sends'[p] \ sends[p] :
            /\ sockets[snd.ws].proc = p
            /\ sockets[snd.ws].order_id = published[lsn.cursor].order_id]_vars

\* C14 witness: a message of one order was delivered to a socket of that
\* order while a socket of the other order was open and registered in the
\* same process, whose listener has finished the message without a send to
\* that socket.
C14_Witness ==
    \E p \in Procs, c, d \in Conns :
        /\ Received(p, c)
        /\ sockets[d].state = "open" /\ sockets[d].proc = p
        /\ sockets[d].order_id # sockets[c].order_id
        /\ d \in Registered(p)
        /\ listeners[p].targets = <<>>
        /\ ~Attempted(p, d)

\* C15 (SpecChat): a socket on which a send of the fan-out failed is not in
\* the registry of its process any more.
C15_FailedSendUnregisters ==
    \A p \in Procs, c \in Conns :
        Failed(p, c) => c \notin Registered(p)

\* A listener has consumed every published message and finished its fan-out.
CaughtUp(p) ==
    /\ listeners[p].cursor = Len(published)
    /\ listeners[p].targets = <<>>

\* C16 (SpecChatLive): a send that fails leaves the rest of the listener's
\* target list in place, so the fan-out goes on with the next socket, and
\* every listener again and again has consumed all published messages and
\* finished their fan-out.
C16_FailedSendDoesNotStopFanOut ==
    /\ [][\A p \in Procs, c \in Conns :
            (~Failed(p, c) /\ Failed(p, c)')
            => listeners'[p].targets = Tail(listeners[p].targets)]_vars
    /\ \A p \in Procs : []<>CaughtUp(p)

\* C16 witness: in one fan-out the send to the first socket of an order
\* failed and the socket registered after it received the message.
C16_Witness ==
    \E p \in Procs, c, d \in Conns :
        /\ c < d
        /\ Failed(p, c)
        /\ Received(p, d)

\* C17 (SpecChatSlow): a send that never completes holds up nothing else:
\* every target of a fan-out that is not itself stalled gets its send.
C17_SlowSendDoesNotBlock ==
    \A p \in Procs, c \in Conns :
        (c \in Range(listeners[p].targets) /\ sockets[c].state # "stalled")
        ~> (c \notin Range(listeners[p].targets) \/ sockets[c].state = "stalled")

\* C18 (SpecChat): every live chat socket has exactly one entry in the
\* registry of its process.
C18_OneEntryPerConnection ==
    \A c \in Conns :
        Live(c) =>
            LET d == active_connections[sockets[c].proc]
            IN Cardinality({i \in 1..Len(d) : d[i].ws = c}) = 1

\* The rows a step added to wallet_transactions.
NewTransactions ==
    SubSeq(wallet_transactions', Len(wallet_transactions) + 1, Len(wallet_transactions'))

\* A pay-with-wallet step that succeeded on an order not yet paid.
PaidNow ==
    /\ last'.op = "pay" /\ last'.code = 200
    /\ Before.payment_status # "paid"

\* C19 (SpecPay): every successful pay-with-wallet on an order not yet paid
\* takes exactly the price from the customer's balance, adds exactly
\* driver_earnings to the balance of the order's driver, sets payment_status
\* paid and payment_method wallet, and adds exactly two ledger rows: payment
\* -price for the customer and earning +driver_earnings for the driver.
C19_PayWithWalletEffect ==
    [][PaidNow =>
        LET customer == last'.user
            driver_user == UserOf(Before.driver_id)
        IN
        /\ wallet_balance[customer] >= Before.price
        /\ wallet_balance'[customer] = wallet_balance[customer] - Before.price
        /\ After = [Before EXCEPT !.payment_status = "paid", !.payment_method = "wallet"]
        /\ Before.driver_id # NULL
        /\ wallet_balance'[driver_user] = wallet_balance[driver_user] + Before.driver_earnings
        /\ NewTransactions =
            <<WalletTransaction(customer, 0 - Before.price, "payment", "success", last'.oid),
              WalletTransaction(driver_user, Before.driver_earnings, "earning", "success",
                                last'.oid)>>]_vars

\* C20 (SpecPay): pay-with-wallet with a customer balance lower than the
\* order price is rejected with the insufficient-funds error (400) and
\* changes no balance, no order and no ledger row.
C20_InsufficientFundsRejected ==
    [][(/\ last'.op = "pay" /\ Exists(last'.oid)
        /\ Before.user_id = last'.user
        /\ wallet_balance[last'.user] < Before.price)
        => /\ last'.code = 400
           /\ UNCHANGED <<orders, wallet_balance, wallet_transactions>>]_vars
\* C20 as amended (SpecPay): pay-with-wallet by the order's customer on an
\* order not yet paid, with a balance lower than the order price, is answered
\* 400 and changes no balance, no order and no ledger row; on an order
\* already paid it is answered 200 and changes nothing either, whatever the
\* balance.
C20_InsufficientFundsRejectedUnpaid ==
    [][(/\ last'.op = "pay" /\ Exists(last'.oid)
        /\ Before.user_id = last'.user)
        => /\ (Before.payment_status # "paid" /\ wallet_balance[last'.user] < Before.price)
              => /\ last'.code = 400
                 /\ UNCHANGED <<orders, wallet_balance, wallet_transactions>>
           /\ Before.payment_status = "paid"
              => /\ last'.code = 200
                 /\ UNCHANGED <<orders, wallet_balance, wallet_transactions>>]_vars

\* C20 witness: the customer's pay-with-wallet of an unpaid order was answered
\* 400 with a balance that is positive and lower than the price.
C20_Witness ==
    /\ last.op = "pay" /\ last.code = 400
    /\ Exists(last.oid)
    /\ orders[last.oid].user_id = last.user
    /\ orders[last.oid].payment_status # "paid"
    /\ wallet_balance[last.user] > 0
    /\ wallet_balance[last.user] < orders[last.oid].price
    /\ \A i \in DOMAIN wallet_transactions : wallet_transactions[i].type = "topup"

\* C26: a PATCH from a user who is neither the order's customer nor a driver
\* changes none of status, driver_id, price and payment_status, and every
\* step that makes an order accepted (POST accept or PATCH) sets driver_id to
\* the caller's own driver record.
C26_OnlyPartiesChangeOrders ==
    [][/\ (/\ last'.op = "update" /\ Exists(last'.oid)
           /\ Before.user_id # last'.user
           /\ ~IsDriver(last'.user))
          => /\ After.status = Before.status
             /\ After.driver_id = Before.driver_id
             /\ After.price = Before.price
             /\ After.payment_status = Before.payment_status
       /\ (/\ last'.op \in {"accept", "update"} /\ Exists(last'.oid)
           /\ Before.status = "pending" /\ After.status = "accepted")
          => After.driver_id = DriverOf(last'.user)]_vars

\* C27: an order has a driver exactly when its status is accepted,
\* in_progress or completed.
C27_DriverIffActive ==
    \A oid \in DOMAIN orders :
        orders[oid].driver_id # NULL
        <=> orders[oid].status \in {"accepted", "in_progress", "completed"}

\* C28 (SpecCreate): every order create_order produces is pending, without
\* driver, with payment_status pending and with the caller as customer,
\* whatever the request body carries.
C28_CreatedPending ==
    [][last'.op = "create"
        => /\ After.status = "pending"
           /\ After.driver_id = NULL
           /\ After.payment_status = "pending"
           /\ After.user_id = last'.user]_vars

\* C29: an order becomes completed only in a complete step of its assigned
\* driver, taken while the order is in_progress and paid; no order is created
\* completed.
C29_CompletedOnlyByDriver ==
    [][\A oid \in DOMAIN orders' :
        (orders'[oid].status = "completed" /\ GetOrder(orders, oid).status # "completed")
        => /\ last'.op = "complete" /\ last'.oid = oid
           /\ IsDriver(last'.user)
           /\ orders[oid].driver_id = DriverOf(last'.user)
           /\ orders[oid].status = "in_progress"
           /\ orders[oid].payment_status = "paid"]_vars

\* C23 (SpecTrack): a location frame that arrives on a socket of driver D is
\* sent to every open location socket of driver D and to no open location
\* socket of another driver.
C23_LocationFanOutScope ==
    [][Len(frames') = Len(frames) + 1
        => \A k \in Conns :
              track_sockets[k].state = "open"
              => ((Len(frames') \in delivered'[k])
                  <=> track_sockets[k].driver_id = frames'[Len(frames')].driver_id)]_vars

\* C24 (SpecLoc): the table driver_locations holds at most one row per
\* driver.
C24_OneLocationRowPerDriver ==
    \A d \in DriverIds :
        Cardinality({i \in DOMAIN driver_locations :
                        driver_locations[i].driver_id = d}) <= 1

\* C22 (SpecFee): every order that has a price has platform_fee and
\* driver_earnings that add up to the price, in hundredths.
C22_FeePlusEarningsIsPrice ==
    \A oid \in DOMAIN orders :
        orders[oid].price # NoAmount
        => orders[oid].platform_fee + orders[oid].driver_earnings = orders[oid].price

\* A step that ends the pay request r after its checks passed.
PayEnds(r) ==
    /\ reqs[r].pc = "loaded" /\ reqs[r].op = "pay"
    /\ reqs'[r].pc = "done"

NoneApplied == orders' = orders /\ wallet_balance' = wallet_balance
               /\ wallet_transactions' = wallet_transactions

\* The order is paid by wallet and the customer's balance is the one read
\* less the price.
DebitApplied(r) ==
    /\ orders'[reqs[r].oid].payment_status = "paid"
    /\ orders'[reqs[r].oid].payment_method = "wallet"
    /\ wallet_balance'[reqs[r].user] = reqs[r].balance - reqs[r].row.price

PaymentRow(r) ==
    WalletTransaction(reqs[r].user, 0 - reqs[r].row.price, "payment", "success",
                      reqs[r].oid)

EarningRow(r, driver_user) ==
    WalletTransaction(driver_user, reqs[r].row.driver_earnings, "earning", "success",
                      reqs[r].oid)

\* The driver's balance is the one read plus the earnings, and the payment
\* row and the earning row are the rows added.
CreditApplied(r) ==
    \E driver_user \in Users :
        /\ DriverOf(driver_user) = reqs[r].row.driver_id
        /\ wallet_balance'[driver_user] = reqs[r].driver_balance + reqs[r].row.driver_earnings
        /\ wallet_transactions' =
                wallet_transactions \o <<PaymentRow(r), EarningRow(r, driver_user)>>

RowsOf(type, oid) ==
    {i \in DOMAIN wallet_transactions :
        /\ wallet_transactions[i].type = type
        /\ wallet_transactions[i].reference_id = oid}

\* C25 (SpecPayRace): an order has at most one payment row and at most one
\* earning row in the ledger, and a pay-with-wallet request that finds the
\* order paid changes nothing.
C25_PaidAtMostOnce ==
    /\ [](\A oid \in OrderIds : /\ Cardinality(RowsOf("payment", oid)) <= 1
                                /\ Cardinality(RowsOf("earning", oid)) <= 1)
    /\ [][\A r \in Requests :
            (/\ reqs[r].pc = "idle" /\ reqs'[r].op = "pay"
             /\ reqs'[r].row.payment_status = "paid")
            => /\ NoneApplied
               /\ reqs'[r].pc = "done" /\ reqs'[r].code \in {200, 403}]_vars

RECURSIVE SuccessSum(_, _)
\* The sum of the amounts of user u's rows with status success among the
\* first n rows of the ledger.
SuccessSum(u, n) ==
    IF n = 0 THEN 0
    ELSE SuccessSum(u, n - 1)
         + (IF /\ wallet_transactions[n].user_id = u
               /\ wallet_transactions[n].status = "success"
            THEN wallet_transactions[n].amount ELSE 0)

\* C30 (SpecPayRace): every user's balance is the sum of the amounts of the
\* user's ledger rows with status success (every balance starts at 0), and is
\* never negative.
C30_BalanceIsLedgerSum ==
    \A u \in Users :
        /\ wallet_balance[u] = SuccessSum(u, Len(wallet_transactions))
        /\ wallet_balance[u] >= 0

====
